---------------------------- MODULE Spec2Model ----------------------------
(***************************************************************************)
(* A model of the SPH fluid simulation: the solver (SPHSystem), its        *)
(* particles (SPHParticle), the sphere obstacle (SphereObstacle) and the   *)
(* application's event handlers (FluidSimulation in main.js).              *)
(*                                                                         *)
(* Numbers.  A JavaScript Number is modelled as a decimal floating-point   *)
(* value [m |-> mantissa, e |-> exponent] standing for m * 10^e, kept in   *)
(* a canonical form (no trailing zero in the mantissa, zero is 0 * 10^0)   *)
(* and rounded to four significant digits after every operation, half      *)
(* away from zero.  Every literal of the source (0.1, 0.05, 0.004, 7.065,  *)
(* ...) is exact in this format; the results of the kernels are rounded,   *)
(* as they are in binary64, only more coarsely.  Infinity and NaN are not  *)
(* modelled: no reachable state divides by zero.                           *)
(***************************************************************************)
EXTENDS Integers, Sequences, FiniteSets, TLC

(***************************************************************************)
(* Decimal floating point                                                  *)
(***************************************************************************)

\* Mantissas are kept below 10^4, so that the product of two fits TLC's
\* 32-bit integers.

Abs(n) == IF n < 0 THEN -n ELSE n

Sgn(n) == IF n < 0 THEN -1 ELSE IF n > 0 THEN 1 ELSE 0

RECURSIVE Digits(_)
Digits(n) == IF n < 10 THEN 1 ELSE 1 + Digits(n \div 10)

\* n / d rounded to the nearest integer, halves away from zero (d > 0).
RoundDiv(n, d) ==
    LET q == Abs(n) \div d
        r == Abs(n) % d
    IN  Sgn(n) * (IF 2 * r >= d THEN q + 1 ELSE q)

RECURSIVE Strip(_, _)
Strip(m, e) ==
    IF m = 0 THEN [m |-> 0, e |-> 0]
    ELSE IF m % 10 = 0 THEN Strip(m \div 10, e + 1)
    ELSE [m |-> m, e |-> e]

\* The canonical four-digit value nearest to m * 10^e.
F(m, e) ==
    LET d == Digits(Abs(m))
    IN  IF d > 4 THEN Strip(RoundDiv(m, 10^(d - 4)), e + d - 4)
        ELSE Strip(m, e)

Zero == F(0, 0)

FromInt(n) == F(n, 0)

FNeg(a) == [m |-> -a.m, e |-> a.e]

\* The position just above the leading digit of a non-zero value.
Top(a) == a.e + Digits(Abs(a.m))

FAdd(a, b) ==
    IF a.m = 0 THEN b
    ELSE IF b.m = 0 THEN a
    ELSE LET hi == IF Top(a) >= Top(b) THEN a ELSE b
             lo == IF Top(a) >= Top(b) THEN b ELSE a
             sh == 9 - Digits(Abs(hi.m))
             ex == hi.e - sh
             hm == hi.m * 10^sh
             lm == IF lo.e >= ex THEN lo.m * 10^(lo.e - ex)
                   ELSE IF ex - lo.e > 9 THEN 0
                   ELSE RoundDiv(lo.m, 10^(ex - lo.e))
         IN  F(hm + lm, ex)

FSub(a, b) == FAdd(a, FNeg(b))

FMul(a, b) == F(a.m * b.m, a.e + b.e)

\* a / b for b # 0 (the source never divides by zero in a reachable state).
FDiv(a, b) ==
    IF a.m = 0 THEN Zero
    ELSE LET sh == 9 - Digits(Abs(a.m))
         IN  F(Sgn(b.m) * RoundDiv(a.m * 10^sh, Abs(b.m)), a.e - sh - b.e)

FLt(a, b) == FSub(a, b).m < 0

FLe(a, b) == ~FLt(b, a)

FAbs(a) == [m |-> Abs(a.m), e |-> a.e]

RECURSIVE FloorSqrt(_, _, _)
FloorSqrt(n, lo, hi) ==
    IF lo >= hi THEN lo
    ELSE LET mid == (lo + hi + 1) \div 2
         IN  IF mid * mid <= n THEN FloorSqrt(n, mid, hi)
             ELSE FloorSqrt(n, lo, mid - 1)

\* Math.sqrt (a >= 0).
FSqrt(a) ==
    IF a.m <= 0 THEN Zero
    ELSE LET sh0 == 9 - Digits(a.m)
             sh  == IF (a.e - sh0) % 2 = 0 THEN sh0 ELSE sh0 - 1
             n   == a.m * 10^sh
             r   == FloorSqrt(n, 0, 46340)
             rr  == IF n - r * r > r THEN r + 1 ELSE r
         IN  F(rr, (a.e - sh) \div 2)

\* Math.floor, as an integer.
FFloor(a) ==
    IF a.e >= 0 THEN a.m * 10^a.e
    ELSE IF -a.e > 9 THEN (IF a.m < 0 THEN -1 ELSE 0)
    ELSE a.m \div 10^(-a.e)

\* Math.pow(a, n) for a natural n.
RECURSIVE FPow(_, _)
FPow(a, n) == IF n = 0 THEN F(1, 0) ELSE FMul(a, FPow(a, n - 1))

\* Math.PI
PI == F(3142, -3)

(***************************************************************************)
(* THREE.Vector3: a triple of numbers                                      *)
(***************************************************************************)

Vec(x, y, z) == <<x, y, z>>

ZeroVec == Vec(Zero, Zero, Zero)

VAdd(a, b) == Vec(FAdd(a[1], b[1]), FAdd(a[2], b[2]), FAdd(a[3], b[3]))

VSub(a, b) == Vec(FSub(a[1], b[1]), FSub(a[2], b[2]), FSub(a[3], b[3]))

MultiplyScalar(a, s) == Vec(FMul(a[1], s), FMul(a[2], s), FMul(a[3], s))

\* Vector3.divideScalar multiplies by the reciprocal.
DivideScalar(a, s) == MultiplyScalar(a, FDiv(F(1, 0), s))

Dot(a, b) == FAdd(FAdd(FMul(a[1], b[1]), FMul(a[2], b[2])), FMul(a[3], b[3]))

Length(a) == FSqrt(Dot(a, a))

\* Vector3.normalize: divideScalar(length() || 1), so the zero vector stays zero.
Normalize(a) == DivideScalar(a, IF Length(a) = Zero THEN F(1, 0) ELSE Length(a))

DistanceTo(a, b) == Length(VSub(a, b))

(***************************************************************************)
(* SPHSystem: construction                                                 *)
(***************************************************************************)

\* An option of the configuration object is <<>> when it is not supplied and
\* <<v>> when it is supplied with value v.
Supplied(v) == <<v>>

NotSupplied == <<>>

\* JavaScript's  option || default : the default replaces a missing option
\* and every falsy one, the number 0 included.
OrDefault(opt, default) ==
    IF opt = NotSupplied \/ opt[1] = Zero THEN default ELSE opt[1]

\* gravity and boundingBox are objects: always truthy when supplied.
ObjectOrDefault(opt, default) ==
    IF opt = NotSupplied THEN default ELSE opt[1]

DefaultBoundingBox ==
    [min |-> Vec(F(-1, 0), F(-1, 0), F(-1, 0)), max |-> Vec(F(1, 0), F(1, 0), F(1, 0))]

DefaultGravity == Vec(Zero, F(-98, -1), Zero)

\* new SPHSystem(p): the solver's configuration and its precomputed constants.
SPHSystem(p) ==
    LET h == OrDefault(p.smoothingRadius, F(16, -2))
    IN  [particleMass     |-> OrDefault(p.particleMass, F(1, 0)),
         restDensity      |-> OrDefault(p.restDensity, F(1000, 0)),
         gasConstant      |-> OrDefault(p.gasConstant, F(2000, 0)),
         h                |-> h,
         h2               |-> FMul(h, h),
         viscosity        |-> OrDefault(p.viscosity, F(18, -3)),
         dt               |-> OrDefault(p.timeStep, F(4, -3)),
         gravity          |-> ObjectOrDefault(p.gravity, DefaultGravity),
         boundingBox      |-> ObjectOrDefault(p.boundingBox, DefaultBoundingBox),
         surfaceTension   |-> OrDefault(p.surfaceTension, F(728, -4)),
         surfaceThreshold |-> OrDefault(p.surfaceThreshold, F(7065, -3)),
         poly6Constant    |->
             FDiv(F(315, 0), FMul(FMul(F(64, 0), PI), FPow(h, 9))),
         spikyGradConstant |->
             FDiv(F(-45, 0), FMul(PI, FPow(h, 6))),
         viscosityLaplaceConstant |->
             FDiv(F(45, 0), FMul(PI, FPow(h, 6)))]

\* A configuration object that supplies nothing.
NoParams ==
    [smoothingRadius |-> NotSupplied, particleMass |-> NotSupplied,
     restDensity |-> NotSupplied, gasConstant |-> NotSupplied,
     viscosity |-> NotSupplied, timeStep |-> NotSupplied,
     gravity |-> NotSupplied, boundingBox |-> NotSupplied,
     surfaceTension |-> NotSupplied, surfaceThreshold |-> NotSupplied]

(***************************************************************************)
(* SPHParticle                                                             *)
(***************************************************************************)

\* new SPHParticle(position, mass)
SPHParticle(position, mass) ==
    [position |-> position, velocity |-> ZeroVec, acceleration |-> ZeroVec,
     force |-> ZeroVec, mass |-> mass, density |-> Zero, pressure |-> Zero,
     neighbors |-> <<>>]

\* SPHParticle.update(dt): semi-implicit Euler.
ParticleUpdate(p, dt) ==
    LET acceleration == DivideScalar(p.force, p.mass)
        velocity     == VAdd(p.velocity, MultiplyScalar(acceleration, dt))
        position     == VAdd(p.position, MultiplyScalar(velocity, dt))
    IN  [p EXCEPT !.acceleration = acceleration, !.velocity = velocity,
                  !.position = position]

(***************************************************************************)
(* SPHSystem: kernels                                                      *)
(***************************************************************************)

poly6Kernel(sys, r, h) ==
    IF FLt(h, r) THEN Zero
    ELSE LET term == FSub(FMul(h, h), FMul(r, r))
         IN  FMul(FMul(FMul(sys.poly6Constant, term), term), term)

spikyGradKernel(sys, r, h, dir) ==
    IF FLt(h, r) \/ FLt(r, F(1, -4)) THEN ZeroVec
    ELSE LET term  == FSub(h, r)
             scale == FDiv(FMul(FMul(sys.spikyGradConstant, term), term), r)
         IN  MultiplyScalar(dir, scale)

viscosityLaplaceKernel(sys, r, h) ==
    IF FLt(h, r) THEN Zero
    ELSE FMul(sys.viscosityLaplaceConstant, FSub(h, r))

(***************************************************************************)
(* SphereObstacle                                                          *)
(***************************************************************************)

\* new SphereObstacle(position, radius)
SphereObstacle(position, radius) == [position |-> position, radius |-> radius]

\* SphereObstacle.handleCollision(particle, damping): the particle afterwards.
SphereHandleCollision(ob, p, damping) ==
    LET distance    == DistanceTo(p.position, ob.position)
        minDistance == FAdd(ob.radius, F(5, -2))
        normal      == Normalize(VSub(p.position, ob.position))
        position    == VAdd(ob.position, MultiplyScalar(normal, minDistance))
        velocityAlongNormal == Dot(p.velocity, normal)
        reflection  == MultiplyScalar(normal, FMul(F(2, 0), velocityAlongNormal))
    IN  IF FLt(distance, minDistance)
        THEN [p EXCEPT !.position = position,
                       !.velocity =
                           IF FLt(velocityAlongNormal, Zero)
                           THEN MultiplyScalar(VSub(p.velocity, reflection), damping)
                           ELSE p.velocity]
        ELSE p

(***************************************************************************)
(* SPHSystem: the phases of a step, for one particle                       *)
(***************************************************************************)

\* initializeParticles: the three nested loops, x outer, y middle, z inner.
\* acc is [ps |-> the collection so far, created |-> the particles created].
RECURSIVE LoopZ(_, _, _, _, _, _, _, _)
LoopZ(sys, acc, count, region, n, i, j, k) ==
    IF k < n[3] /\ acc.created < count
    THEN LET spacing  == FMul(sys.h, F(5, -1))
             position == Vec(FAdd(region.min[1], FMul(FromInt(i), spacing)),
                             FAdd(region.min[2], FMul(FromInt(j), spacing)),
                             FAdd(region.min[3], FMul(FromInt(k), spacing)))
         IN  LoopZ(sys,
                   [ps |-> Append(acc.ps, SPHParticle(position, sys.particleMass)),
                    created |-> acc.created + 1],
                   count, region, n, i, j, k + 1)
    ELSE acc

RECURSIVE LoopY(_, _, _, _, _, _, _)
LoopY(sys, acc, count, region, n, i, j) ==
    IF j < n[2] /\ acc.created < count
    THEN LoopY(sys, LoopZ(sys, acc, count, region, n, i, j, 0),
               count, region, n, i, j + 1)
    ELSE acc

RECURSIVE LoopX(_, _, _, _, _, _)
LoopX(sys, acc, count, region, n, i) ==
    IF i < n[1] /\ acc.created < count
    THEN LoopX(sys, LoopY(sys, acc, count, region, n, i, 0), count, region, n, i + 1)
    ELSE acc

\* A plausible slip: counting the grid positions of an axis with both ends.
GridCountInclusive(sys, region, a) ==
    FFloor(FDiv(FSub(region.max[a], region.min[a]), FMul(sys.h, F(5, -1)))) + 1

\* The number of grid positions along axis a of the region.
GridCount(sys, region, a) ==
    FFloor(FDiv(FSub(region.max[a], region.min[a]), FMul(sys.h, F(5, -1))))

\* initializeParticles(count, region) on the collection ps: the collection
\* afterwards.
InitializeParticles(sys, ps, count, region) ==
    LET n == <<GridCount(sys, region, 1), GridCount(sys, region, 2),
               GridCount(sys, region, 3)>>
    IN  LoopX(sys, [ps |-> ps, created |-> 0], count, region, n, 0).ps

\* A plausible slip: a neighbor test that admits the pair exactly h apart.
RECURSIVE NeighborsFromInclusive(_, _, _, _)
NeighborsFromInclusive(sys, ps, i, j) ==
    IF j > Len(ps) THEN <<>>
    ELSE LET dist == DistanceTo(ps[i].position, ps[j].position)
             rest == NeighborsFromInclusive(sys, ps, i, j + 1)
         IN  IF j = i THEN rest
             ELSE IF FLe(dist, sys.h)
             THEN <<[particle  |-> j,
                     distance  |-> dist,
                     direction |-> Normalize(VSub(ps[j].position, ps[i].position))]>>
                  \o rest
             ELSE rest

\* A plausible slip: a pair search that stores one direction, from the
\* earlier particle to the later, in the lists of both.
RECURSIVE NeighborsFromSharedDirection(_, _, _, _)
NeighborsFromSharedDirection(sys, ps, i, j) ==
    IF j > Len(ps) THEN <<>>
    ELSE LET dist == DistanceTo(ps[i].position, ps[j].position)
             rest == NeighborsFromSharedDirection(sys, ps, i, j + 1)
             lo   == IF i < j THEN i ELSE j
             hi   == IF i < j THEN j ELSE i
         IN  IF j = i THEN rest
             ELSE IF FLt(dist, sys.h)
             THEN <<[particle  |-> j,
                     distance  |-> dist,
                     direction |-> Normalize(VSub(ps[hi].position, ps[lo].position))]>>
                  \o rest
             ELSE rest

\* findNeighbors, the inner loop for particle i: the others from j on.
RECURSIVE NeighborsFrom(_, _, _, _)
NeighborsFrom(sys, ps, i, j) ==
    IF j > Len(ps) THEN <<>>
    ELSE LET dist == DistanceTo(ps[i].position, ps[j].position)
             rest == NeighborsFrom(sys, ps, i, j + 1)
         IN  IF j = i THEN rest
             ELSE IF FLt(dist, sys.h)
             THEN <<[particle  |-> j,
                     distance  |-> dist,
                     direction |-> Normalize(VSub(ps[j].position, ps[i].position))]>>
                  \o rest
             ELSE rest

NeighborsOf(sys, ps, i) == NeighborsFrom(sys, ps, i, 1)

\* computeDensityPressure, the neighbour loop of one particle.
RECURSIVE DensitySum(_, _, _, _, _)
DensitySum(sys, ps, nbs, n, density) ==
    IF n > Len(nbs) THEN density
    ELSE DensitySum(sys, ps, nbs, n + 1,
             FAdd(density, FMul(ps[nbs[n].particle].mass,
                                poly6Kernel(sys, nbs[n].distance, sys.h))))

DensityOf(sys, ps, i) ==
    DensitySum(sys, ps, ps[i].neighbors, 1,
               FMul(poly6Kernel(sys, Zero, sys.h), ps[i].mass))

PressureOf(sys, density) == FMul(sys.gasConstant, FSub(density, sys.restDensity))

\* computeForces, the pressure force one neighbour adds to particle i.
PressureContribution(sys, ps, i, nb) ==
    LET other        == ps[nb.particle]
        pressureGrad == spikyGradKernel(sys, nb.distance, sys.h, nb.direction)
        pressureTerm == FDiv(FAdd(ps[i].pressure, other.pressure),
                             FMul(F(2, 0), other.density))
    IN  MultiplyScalar(pressureGrad, FMul(FNeg(other.mass), pressureTerm))

\* computeForces, the neighbour loop of particle i; acc holds the four sums.
RECURSIVE ForceSums(_, _, _, _, _)
ForceSums(sys, ps, i, n, acc) ==
    IF n > Len(ps[i].neighbors) THEN acc
    ELSE LET nb    == ps[i].neighbors[n]
             other == ps[nb.particle]
             relativeVelocity == VSub(other.velocity, ps[i].velocity)
             viscosityTerm ==
                 FDiv(viscosityLaplaceKernel(sys, nb.distance, sys.h), other.density)
             colorGrad ==
                 MultiplyScalar(spikyGradKernel(sys, nb.distance, sys.h, nb.direction),
                                FDiv(other.mass, other.density))
         IN  ForceSums(sys, ps, i, n + 1,
                 [pressureForce  |->
                      VAdd(acc.pressureForce, PressureContribution(sys, ps, i, nb)),
                  viscosityForce |->
                      VAdd(acc.viscosityForce,
                           MultiplyScalar(relativeVelocity,
                                          FMul(other.mass, viscosityTerm))),
                  surfaceNormal  |-> VAdd(acc.surfaceNormal, colorGrad),
                  colorFieldLaplacian |->
                      FAdd(acc.colorFieldLaplacian,
                           FMul(FDiv(other.mass, other.density),
                                viscosityLaplaceKernel(sys, nb.distance, sys.h)))])

\* The pressure force computeForces accumulates on particle i.
PressureForceOn(sys, ps, i) ==
    ForceSums(sys, ps, i, 1,
              [pressureForce |-> ZeroVec, viscosityForce |-> ZeroVec,
               surfaceNormal |-> ZeroVec, colorFieldLaplacian |-> Zero]).pressureForce

\* computeForces, one particle: the force it ends with.
ForceOn(sys, ps, i) ==
    LET sums == ForceSums(sys, ps, i, 1,
                    [pressureForce |-> ZeroVec, viscosityForce |-> ZeroVec,
                     surfaceNormal |-> ZeroVec, colorFieldLaplacian |-> Zero])
        gravity   == MultiplyScalar(sys.gravity, ps[i].mass)
        viscosity == MultiplyScalar(sums.viscosityForce,
                                    FMul(sys.viscosity, ps[i].mass))
        f3 == VAdd(VAdd(VAdd(ZeroVec, gravity), sums.pressureForce), viscosity)
        surfaceForce ==
            MultiplyScalar(Normalize(sums.surfaceNormal),
                           FMul(FNeg(sys.surfaceTension), sums.colorFieldLaplacian))
    IN  IF FLt(sys.surfaceThreshold, Length(sums.surfaceNormal))
        THEN VAdd(f3, surfaceForce)
        ELSE f3

\* handleCollisions: damping, the collision damping coefficient.
Damping == F(5, -1)

\* A plausible slip: a wall test that forgets the upper wall.
WallAxisLowerOnly(x, v, lo, hi) ==
    IF FLt(x, lo) THEN <<lo, FMul(v, FNeg(Damping))>>
    ELSE <<x, v>>

\* A plausible slip: a wall test that reflects the velocity undamped.
WallAxisUndamped(x, v, lo, hi) ==
    IF FLt(x, lo) THEN <<lo, FNeg(v)>>
    ELSE IF FLt(hi, x) THEN <<hi, FNeg(v)>>
    ELSE <<x, v>>

\* handleCollisions, the wall test of one axis: <<coordinate, velocity>>.
WallAxis(x, v, lo, hi) ==
    IF FLt(x, lo) THEN <<lo, FMul(v, FNeg(Damping))>>
    ELSE IF FLt(hi, x) THEN <<hi, FMul(v, FNeg(Damping))>>
    ELSE <<x, v>>

\* handleCollisions, the bounding-box pass of one particle.
WallPass(sys, p) ==
    LET ax(a) == WallAxis(p.position[a], p.velocity[a],
                          sys.boundingBox.min[a], sys.boundingBox.max[a])
    IN  [p EXCEPT !.position = Vec(ax(1)[1], ax(2)[1], ax(3)[1]),
                  !.velocity = Vec(ax(1)[2], ax(2)[2], ax(3)[2])]

\* handleCollisions, the obstacle loop of one particle, from obstacle n on.
RECURSIVE ObstaclePass(_, _, _)
ObstaclePass(obs, p, n) ==
    IF n > Len(obs) THEN p
    ELSE ObstaclePass(obs, SphereHandleCollision(obs[n], p, Damping), n + 1)

\* handleCollisions, one particle: the walls, then every obstacle in order.
CollideParticle(sys, obs, p) == ObstaclePass(obs, WallPass(sys, p), 1)

(***************************************************************************)
(* State                                                                   *)
(***************************************************************************)

VARIABLES
    status,            \* "new" before new SPHSystem(...), then "constructed"
    params,            \* the configuration object given to the constructor
    solver,            \* the SPHSystem's configuration and kernel constants
    particles,         \* SPHSystem.particles
    obstacles,         \* SPHSystem.obstacles
    pc,                \* "start", "idle", or the phase of update() in progress
    idx,               \* the particle the phase in progress handles next
    rafPending,        \* animation-frame callbacks requested and not yet run
    isDragging,        \* FluidSimulation.isDragging
    selectedObstacle,  \* FluidSimulation.selectedObstacle: 0 (null) or an index
    step,              \* history: the update() calls entered so far
    depth,             \* history: the update() calls entered and not returned
    written,           \* history: per particle, the step that last set density
    lastPhase,         \* history: per particle, the last phase of this step
    epoch,             \* history: how often the collection was replaced
    lastCall,          \* history: the last call that changed the collection
    initial            \* history: the positions after the first initialization

vars == <<status, params, solver, particles, obstacles, pc, idx, rafPending,
          isDragging, selectedObstacle, step, depth, written, lastPhase,
          epoch, lastCall, initial>>

appVars == <<rafPending, isDragging, selectedObstacle>>

\* Bounds of the model.
MaxSteps == 2

MaxResets == 2

\* The particles the application asks for (main.js asks for 1000: the model
\* keeps the first ParticleCount of the same grid).
ParticleCount == 2

\* The most particles a solver-level scenario places.
MaxParticles == 2

\* The counts initializeParticles is tried with are 0..MaxCount.
MaxCount == 3

Phases == {"findNeighbors", "computeDensityPressure", "computeForces",
           "integrate", "handleCollisions"}

\* The number a phase has in the order the specification gives.
PhaseNo(ph) ==
    CASE ph = "findNeighbors" -> 1
      [] ph = "computeDensityPressure" -> 2
      [] ph = "computeForces" -> 3
      [] ph = "integrate" -> 4
      [] ph = "handleCollisions" -> 5
      [] OTHER -> 0

\* A plausible slip: the forces computed before the densities.
NextPhaseForcesFirst(ph) ==
    CASE ph = "findNeighbors" -> "computeForces"
      [] ph = "computeForces" -> "computeDensityPressure"
      [] ph = "computeDensityPressure" -> "integrate"
      [] ph = "integrate" -> "handleCollisions"
      [] OTHER -> "idle"

\* update(): the phase that follows ph; after the last one update() returns.
NextPhase(ph) ==
    CASE ph = "findNeighbors" -> "computeDensityPressure"
      [] ph = "computeDensityPressure" -> "computeForces"
      [] ph = "computeForces" -> "integrate"
      [] ph = "integrate" -> "handleCollisions"
      [] OTHER -> "idle"

Zeros(n) == [i \in 1..n |-> 0]

Positions(ps) == [i \in 1..Len(ps) |-> ps[i].position]

NoRegion == [min |-> ZeroVec, max |-> ZeroVec]

Call(op, count, region, before) ==
    [op |-> op, count |-> count, region |-> region, before |-> before]

(***************************************************************************)
(* The solver's operations                                                 *)
(***************************************************************************)

\* The configuration objects the constructor is tried with.
NumberOptions(v) == {NotSupplied, Supplied(Zero), Supplied(v)}

CtorParams ==
    [smoothingRadius  : NumberOptions(F(1, -1)) \cup {Supplied(F(-1, -1))},
     particleMass     : NumberOptions(F(2, 0)) \cup {Supplied(F(-1, 0))},
     restDensity      : NumberOptions(F(998, 0)),
     gasConstant      : NumberOptions(F(1000, 0)),
     viscosity        : NumberOptions(F(1, -1)),
     timeStep         : NumberOptions(F(1, -3)),
     gravity          : {NotSupplied},
     boundingBox      : {NotSupplied},
     surfaceTension   : NumberOptions(F(5, -2)),
     surfaceThreshold : NumberOptions(F(5, 0))]

\* new SPHSystem(p).  The constructor has no failing path: it always returns.
Construct(p) ==
    /\ status = "new"
    /\ status' = "constructed"
    /\ params' = p
    /\ solver' = SPHSystem(p)
    /\ particles' = <<>>
    /\ obstacles' = <<>>
    /\ UNCHANGED <<pc, idx, appVars, step, depth, written, lastPhase, epoch,
                   lastCall, initial>>

\* sphSystem.initializeParticles(count, region), called between steps.
InitializeParticlesCall(count, region) ==
    /\ pc = "idle"
    /\ Len(InitializeParticles(solver, particles, count, region)) <= MaxCount
    /\ particles' = InitializeParticles(solver, particles, count, region)
    /\ written' = Zeros(Len(particles'))
    /\ lastPhase' = Zeros(Len(particles'))
    /\ lastCall' = Call("initializeParticles", count, region, Len(particles))
    /\ UNCHANGED <<status, params, solver, obstacles, pc, idx, appVars, step,
                   depth, epoch, initial>>

\* Entering update().
UpdateEntry ==
    /\ pc' = "findNeighbors"
    /\ idx' = 1
    /\ step' = step + 1
    /\ depth' = depth + 1
    /\ lastPhase' = Zeros(Len(particles))
    /\ lastCall' = Call("update", 0, NoRegion, Len(particles))
    /\ UNCHANGED <<status, params, solver, particles, obstacles, isDragging,
                   selectedObstacle, written, epoch, initial>>

\* sphSystem.update(), called by a client of the solver.
Update ==
    /\ pc = "idle"
    /\ step < MaxSteps
    /\ rafPending' = rafPending
    /\ UpdateEntry

\* The loop of a phase moves to the next particle, or the phase ends.
Advance ==
    IF idx < Len(particles)
    THEN pc' = pc /\ idx' = idx + 1 /\ depth' = depth
    ELSE /\ pc' = NextPhase(pc)
         /\ idx' = 1
         /\ depth' = IF NextPhase(pc) = "idle" THEN depth - 1 ELSE depth

Here == idx <= Len(particles)

PhaseFrame ==
    UNCHANGED <<status, params, solver, obstacles, appVars, step, epoch,
                lastCall, initial>>

\* findNeighbors(), one iteration of its outer loop.
FindNeighbors ==
    /\ pc = "findNeighbors"
    /\ particles' = IF Here
                    THEN [particles EXCEPT
                             ![idx].neighbors = NeighborsOf(solver, particles, idx)]
                    ELSE particles
    /\ lastPhase' = IF Here THEN [lastPhase EXCEPT ![idx] = 1] ELSE lastPhase
    /\ written' = written
    /\ Advance
    /\ PhaseFrame

\* computeDensityPressure(), one iteration of its outer loop.
ComputeDensityPressure ==
    /\ pc = "computeDensityPressure"
    /\ particles' =
           IF Here
           THEN LET density == DensityOf(solver, particles, idx)
                IN  [particles EXCEPT ![idx].density = density,
                                      ![idx].pressure = PressureOf(solver, density)]
           ELSE particles
    /\ lastPhase' = IF Here THEN [lastPhase EXCEPT ![idx] = 2] ELSE lastPhase
    /\ written' = IF Here THEN [written EXCEPT ![idx] = step] ELSE written
    /\ Advance
    /\ PhaseFrame

\* computeForces(), one iteration of its outer loop.
ComputeForces ==
    /\ pc = "computeForces"
    /\ particles' = IF Here
                    THEN [particles EXCEPT
                             ![idx].force = ForceOn(solver, particles, idx)]
                    ELSE particles
    /\ lastPhase' = IF Here THEN [lastPhase EXCEPT ![idx] = 3] ELSE lastPhase
    /\ written' = written
    /\ Advance
    /\ PhaseFrame

\* update(), one iteration of the loop that calls particle.update(dt).
Integrate ==
    /\ pc = "integrate"
    /\ particles' = IF Here
                    THEN [particles EXCEPT
                             ![idx] = ParticleUpdate(particles[idx], solver.dt)]
                    ELSE particles
    /\ lastPhase' = IF Here THEN [lastPhase EXCEPT ![idx] = 4] ELSE lastPhase
    /\ written' = written
    /\ Advance
    /\ PhaseFrame

\* handleCollisions(), one iteration of its outer loop.
HandleCollisions ==
    /\ pc = "handleCollisions"
    /\ particles' = IF Here
                    THEN [particles EXCEPT
                             ![idx] = CollideParticle(solver, obstacles, particles[idx])]
                    ELSE particles
    /\ lastPhase' = IF Here THEN [lastPhase EXCEPT ![idx] = 5] ELSE lastPhase
    /\ written' = written
    /\ Advance
    /\ PhaseFrame

StepPhases ==
    \/ FindNeighbors
    \/ ComputeDensityPressure
    \/ ComputeForces
    \/ Integrate
    \/ HandleCollisions

(***************************************************************************)
(* The application (main.js)                                               *)
(***************************************************************************)

\* initSPH: the configuration object of the application.
AppParams ==
    [smoothingRadius  |-> Supplied(F(1, -1)),
     particleMass     |-> Supplied(F(1, 0)),
     restDensity      |-> Supplied(F(1000, 0)),
     gasConstant      |-> Supplied(F(2000, 0)),
     viscosity        |-> Supplied(F(18, -3)),
     timeStep         |-> Supplied(F(4, -3)),
     gravity          |-> Supplied(Vec(Zero, F(-98, -1), Zero)),
     boundingBox      |-> Supplied([min |-> Vec(F(-1, 0), F(-1, 0), F(-1, 0)),
                                    max |-> Vec(F(1, 0), F(1, 0), F(1, 0))]),
     surfaceTension   |-> Supplied(F(728, -4)),
     surfaceThreshold |-> NotSupplied]

\* initSPH and resetSimulation: the region the particles are placed in.
ParticleRegion ==
    [min |-> Vec(F(-5, -1), F(-5, -1), F(-5, -1)),
     max |-> Vec(F(5, -1), F(5, -1), F(5, -1))]

\* addObstacles: the sphere the application adds.
AppObstacles == <<SphereObstacle(ZeroVec, F(3, -1))>>

\* A plausible slip: a step that yields to the event loop between its phases,
\* so that a handler or a frame could start while it is in progress.
TaskMayStartMidStep == pc # "start"

\* A JavaScript task (a frame, an event handler) starts only when no other is
\* running: animate() calls update() synchronously and nothing in it awaits.
TaskMayStart == pc = "idle"

\* A plausible slip: the reset that forgets to empty the collection first.
ResetParticlesAppending(sys, ps) ==
    InitializeParticles(sys, ps, ParticleCount, ParticleRegion)

\* resetSimulation: the collection is emptied, then initialized again.
ResetParticles(sys, ps) ==
    InitializeParticles(sys, <<>>, ParticleCount, ParticleRegion)

\* animate(): requests the next frame, then runs update() to its end.  The
\* first call is the constructor's; every later one is a requested frame.
Animate ==
    /\ pc = "start" \/ (TaskMayStart /\ rafPending > 0)
    /\ step < MaxSteps
    /\ rafPending' = IF pc = "start" THEN rafPending + 1 ELSE rafPending
    /\ UpdateEntry

\* The mousedown handler; hit tells whether the ray meets the sphere's mesh.
MouseDown(hit) ==
    /\ TaskMayStart
    /\ isDragging' = IF hit THEN TRUE ELSE isDragging
    /\ selectedObstacle' = IF hit THEN 1 ELSE selectedObstacle
    /\ UNCHANGED <<status, params, solver, particles, obstacles, pc, idx,
                   rafPending, step, depth, written, lastPhase, epoch, lastCall,
                   initial>>

\* Math.max(-0.7, Math.min(0.7, x))
ClampDrag(x) ==
    LET lo == F(-7, -1)
        hi == F(7, -1)
        m  == IF FLt(x, hi) THEN x ELSE hi
    IN  IF FLt(m, lo) THEN lo ELSE m

\* The points the ray of a mousemove is taken to meet the drag plane in.
DragPoints ==
    {Vec(Zero, F(-9, -1), Zero), Vec(F(7, -1), Zero, F(2, 0)), ZeroVec,
     Vec(F(-5, -1), F(-5, -1), F(-9, -1))}

\* The mousemove handler.
MouseMove(point) ==
    /\ TaskMayStart
    /\ obstacles' =
           IF isDragging /\ selectedObstacle # 0
           THEN [obstacles EXCEPT
                    ![selectedObstacle].position =
                        Vec(ClampDrag(point[1]), ClampDrag(point[2]),
                            ClampDrag(point[3]))]
           ELSE obstacles
    /\ UNCHANGED <<status, params, solver, particles, pc, idx, appVars, step,
                   depth, written, lastPhase, epoch, lastCall, initial>>

\* The mouseup handler.
MouseUp ==
    /\ TaskMayStart
    /\ isDragging' = FALSE
    /\ selectedObstacle' = 0
    /\ UNCHANGED <<status, params, solver, particles, obstacles, pc, idx,
                   rafPending, step, depth, written, lastPhase, epoch, lastCall,
                   initial>>

\* A plausible slip: a reset that sets the whole scene up again, the
\* obstacle back at the origin included.
KeyDownRebuildingScene(code) ==
    /\ TaskMayStart
    /\ epoch < MaxResets
    /\ code = "Space"
    /\ particles' = ResetParticles(solver, particles)
    /\ obstacles' = AppObstacles
    /\ written' = Zeros(Len(particles'))
    /\ lastPhase' = Zeros(Len(particles'))
    /\ epoch' = epoch + 1
    /\ lastCall' = Call("resetSimulation", ParticleCount, ParticleRegion,
                        Len(particles))
    /\ UNCHANGED <<status, params, solver, pc, idx, appVars, step, depth,
                   initial>>

\* The keydown handler: the spacebar resets the simulation.
KeyDown(code) ==
    /\ TaskMayStart
    /\ epoch < MaxResets
    /\ code = "Space"
    /\ particles' = ResetParticles(solver, particles)
    /\ written' = Zeros(Len(particles'))
    /\ lastPhase' = Zeros(Len(particles'))
    /\ epoch' = epoch + 1
    /\ lastCall' = Call("resetSimulation", ParticleCount, ParticleRegion,
                        Len(particles))
    /\ UNCHANGED <<status, params, solver, obstacles, pc, idx, appVars, step,
                   depth, initial>>

(***************************************************************************)
(* Specifications                                                          *)
(***************************************************************************)

\* The application, from the point where its constructor calls animate().
Init ==
    /\ status = "constructed"
    /\ params = AppParams
    /\ solver = SPHSystem(AppParams)
    /\ particles = InitializeParticles(solver, <<>>, ParticleCount, ParticleRegion)
    /\ obstacles = AppObstacles
    /\ pc = "start"
    /\ idx = 1
    /\ rafPending = 0
    /\ isDragging = FALSE
    /\ selectedObstacle = 0
    /\ step = 0
    /\ depth = 0
    /\ written = Zeros(Len(particles))
    /\ lastPhase = Zeros(Len(particles))
    /\ epoch = 0
    /\ lastCall = Call("initializeParticles", ParticleCount, ParticleRegion, 0)
    /\ initial = Positions(particles)

Next ==
    \/ Animate
    \/ StepPhases
    \/ \E hit \in BOOLEAN : MouseDown(hit)
    \/ \E point \in DragPoints : MouseMove(point)
    \/ MouseUp
    \/ \E code \in {"Space", "KeyR"} : KeyDown(code)

Spec == Init /\ [][Next]_vars

\* The values every scenario starts the application's variables and the
\* histories with.
Quiet ==
    /\ idx = 1
    /\ rafPending = 0
    /\ isDragging = FALSE
    /\ selectedObstacle = 0
    /\ epoch = 0
    /\ initial = Positions(particles)

\* Construction alone: every configuration object of CtorParams.
InitCtor ==
    /\ status = "new"
    /\ params = NoParams
    /\ solver = [f \in DOMAIN SPHSystem(NoParams) |-> Zero]
    /\ particles = <<>>
    /\ obstacles = <<>>
    /\ pc = "idle"
    /\ step = 0
    /\ depth = 0
    /\ written = <<>>
    /\ lastPhase = <<>>
    /\ lastCall = Call("none", 0, NoRegion, 0)
    /\ Quiet

NextCtor == \E p \in CtorParams : Construct(p)

SpecCtor == InitCtor /\ [][NextCtor]_vars

\* The configurations the solver-level scenarios construct the solver with:
\* the application's, and two the constructor accepts with a negative value.
SolverParams ==
    {AppParams,
     [AppParams EXCEPT !.smoothingRadius = Supplied(F(-1, -1))],
     [AppParams EXCEPT !.particleMass = Supplied(F(-1, 0))]}

\* Where a client places particles: the origin, a point h/2 from it, two
\* points exactly h from it, and a point outside the bounding box.
PlacePoints ==
    {ZeroVec,
     Vec(F(5, -2), Zero, Zero),
     Vec(F(1, -1), Zero, Zero),
     Vec(F(6, -2), F(8, -2), Zero),
     Vec(F(99, -2), F(-15, -1), Zero)}

PlaceVelocities == {ZeroVec, Vec(F(5, 0), Zero, F(-2, 0))}

\* addParticle(position), then the client sets the velocity.
Placed(sys, position, velocity) ==
    [SPHParticle(position, sys.particleMass) EXCEPT !.velocity = velocity]

Placements(sys) ==
    UNION {[1..n -> {Placed(sys, x, v) : x \in PlacePoints, v \in PlaceVelocities}]
           : n \in 1..MaxParticles}

\* A solver with no obstacle and particles a client has placed anywhere.
InitSolver ==
    /\ status = "constructed"
    /\ params \in SolverParams
    /\ solver = SPHSystem(params)
    /\ particles \in Placements(solver)
    /\ obstacles = <<>>
    /\ pc = "idle"
    /\ step = 0
    /\ depth = 0
    /\ written = Zeros(Len(particles))
    /\ lastPhase = Zeros(Len(particles))
    /\ lastCall = Call("addParticle", 0, NoRegion, 0)
    /\ Quiet

NextSolver == Update \/ StepPhases

SpecSolver == InitSolver /\ [][NextSolver]_vars

\* The particle handleCollisions is tried on: outside a wall, at the sphere's
\* center, inside the sphere, on its contact surface, and clear of everything.
CollidePoints ==
    {Vec(F(101, -2), Zero, Zero),
     ZeroVec,
     Vec(F(1, -1), F(1, -1), Zero),
     Vec(Zero, F(35, -2), Zero),
     Vec(F(-12, -1), F(15, -1), F(3, -1)),
     Vec(F(5, -1), F(5, -1), F(5, -1))}

CollideVelocities == {ZeroVec, Vec(F(1, 0), Zero, Zero), Vec(F(-1, 0), F(-2, 0), Zero)}

\* A step of the application's solver that has integrated its one particle
\* and is about to handle collisions, with and without the sphere.
InitCollide ==
    /\ status = "constructed"
    /\ params = AppParams
    /\ solver = SPHSystem(params)
    /\ particles \in {<<Placed(solver, x, v)>> : x \in CollidePoints,
                                                 v \in CollideVelocities}
    /\ obstacles \in {<<>>, AppObstacles}
    /\ pc = "handleCollisions"
    /\ step = 1
    /\ depth = 1
    /\ written = <<1>>
    /\ lastPhase = <<4>>
    /\ lastCall = Call("update", 0, NoRegion, 1)
    /\ Quiet

SpecCollide == InitCollide /\ [][NextSolver]_vars

\* The regions initializeParticles is tried with: the application's, two thin
\* ones, a point, and a box whose min lies above its max on two axes.
Regions ==
    {ParticleRegion,
     [min |-> ZeroVec, max |-> Vec(F(1, -1), F(5, -2), F(12, -2))],
     [min |-> ZeroVec, max |-> Vec(F(1, -1), F(5, -2), F(5, -2))],
     [min |-> ZeroVec, max |-> ZeroVec],
     [min |-> Vec(F(5, -1), F(5, -1), Zero), max |-> Vec(F(-5, -1), F(-5, -1), F(1, -1))]}

\* A solver that holds no particle yet.
InitFill ==
    /\ status = "constructed"
    /\ params \in {AppParams, NoParams,
                   [AppParams EXCEPT !.smoothingRadius = Supplied(F(-1, -1))]}
    /\ solver = SPHSystem(params)
    /\ particles = <<>>
    /\ obstacles = <<>>
    /\ pc = "idle"
    /\ step = 0
    /\ depth = 0
    /\ written = <<>>
    /\ lastPhase = <<>>
    /\ lastCall = Call("none", 0, NoRegion, 0)
    /\ Quiet

NextFill ==
    \/ \E count \in -1..MaxCount, region \in Regions :
           InitializeParticlesCall(count, region)
    \/ Update
    \/ StepPhases

SpecFill == InitFill /\ [][NextFill]_vars

(***************************************************************************)
(* Claims                                                                  *)
(***************************************************************************)

N == Len(particles)

NonPositive(opt) == opt # NotSupplied /\ opt[1].m <= 0

\* C1 (as claimed): constructing the solver with a smoothingRadius or a
\* particleMass that is zero or negative is rejected: construction ends in an
\* error, and no solver is produced.
C1_NonPositiveRejected ==
    (status # "new" /\ (NonPositive(params.smoothingRadius)
                        \/ NonPositive(params.particleMass)))
        => status = "error"

\* C2: within an update() the phases run in the order neighbor search,
\* density/pressure, forces, integration, collisions, each finished for all
\* particles before the next touches any; so when computeForces is about to
\* read the density and pressure of a particle and of its neighbors, each was
\* written by computeDensityPressure of this very step.
C2_PhasesInOrder ==
    /\ pc \in Phases =>
           \A j \in 1..N :
               lastPhase[j] = IF j < idx THEN PhaseNo(pc) ELSE PhaseNo(pc) - 1
    /\ (pc = "idle" /\ step >= 1) => \A j \in 1..N : lastPhase[j] = 5
    /\ (pc = "computeForces" /\ Here) =>
           /\ written[idx] = step
           /\ \A n \in 1..Len(particles[idx].neighbors) :
                  written[particles[idx].neighbors[n].particle] = step

\* C2 witness: in a second step, computeForces is about to read a neighbor
\* whose density the first step had written too.
C2_Witness ==
    /\ pc = "computeForces"
    /\ step = 2
    /\ Here
    /\ particles[idx].neighbors # <<>>

\* C3: in the application a step is atomic for the frames, the key presses
\* and the mouse events: while an update() is in progress the collection is
\* not replaced, no obstacle moves and no other update() is entered.
C3_StepAtomic ==
    [][/\ pc \in Phases =>
              (epoch' = epoch /\ obstacles' = obstacles /\ step' = step)
       /\ depth' <= 1]_vars

\* C3 witness: an update() in progress after a reset and a drag took place.
C3_Witness ==
    /\ pc \in Phases
    /\ step = 2
    /\ epoch >= 1
    /\ obstacles[1].position # ZeroVec

InBox(sys, x) ==
    \A a \in 1..3 :
        FLe(sys.boundingBox.min[a], x[a]) /\ FLe(x[a], sys.boundingBox.max[a])

\* C4: with no obstacle, after every completed step every particle lies in
\* the bounding box on all three axes, wherever it started.
C4_StaysInBox ==
    (obstacles = <<>> /\ pc = "idle" /\ step >= 1) =>
        \A i \in 1..N : InBox(solver, particles[i].position)

\* C4 witness: a completed step has brought a particle back to two walls.
C4_Witness ==
    /\ obstacles = <<>>
    /\ pc = "idle"
    /\ step >= 1
    /\ \E i \in 1..N :
           /\ particles[i].position[1] = solver.boundingBox.max[1]
           /\ particles[i].position[2] = solver.boundingBox.min[2]

\* The wall rule of one axis: p before the wall pass, q after it.
AxisRule(sys, p, q, a) ==
    IF FLt(p.position[a], sys.boundingBox.min[a])
    THEN /\ q.position[a] = sys.boundingBox.min[a]
         /\ q.velocity[a] = FMul(p.velocity[a], F(-5, -1))
    ELSE IF FLt(sys.boundingBox.max[a], p.position[a])
    THEN /\ q.position[a] = sys.boundingBox.max[a]
         /\ q.velocity[a] = FMul(p.velocity[a], F(-5, -1))
    ELSE /\ q.position[a] = p.position[a]
         /\ q.velocity[a] = p.velocity[a]

\* C5: the wall pass of handleCollisions, axis by axis: a coordinate below
\* min (above max) becomes min (max) and its velocity component is multiplied
\* by -0.5; a coordinate within the walls keeps position and velocity.  A
\* particle at (max.x + 0.01, 0, 0) ends at x = max.x, with velocity.x 0
\* still 0 and velocity.x 1 turned into -0.5.
C5_WallPass ==
    [][(pc = "handleCollisions" /\ Here /\ obstacles = <<>>) =>
           /\ \A a \in 1..3 :
                  AxisRule(solver, particles[idx], particles'[idx], a)
           /\ particles[idx].position = Vec(F(101, -2), Zero, Zero) =>
                  /\ particles'[idx].position = Vec(F(1, 0), Zero, Zero)
                  /\ particles[idx].velocity[1] = Zero =>
                         particles'[idx].velocity[1] = Zero
                  /\ particles[idx].velocity[1] = F(1, 0) =>
                         particles'[idx].velocity[1] = F(-5, -1)]_vars

\* C5 witness: the particle that was at (1.01, 0, 0) with velocity.x 1 after
\* its wall pass.
C5_Witness ==
    /\ obstacles = <<>>
    /\ step = 1
    /\ pc = "idle"
    /\ particles[1].position = Vec(F(1, 0), Zero, Zero)
    /\ particles[1].velocity = Vec(F(-5, -1), Zero, Zero)

\* Two numbers that differ by no more than 0.001.
Near(a, b) == FLe(FAbs(FSub(a, b)), F(1, -3))

\* C6 (as claimed): a particle closer to the sphere's center than radius +
\* 0.05, the center itself included, is at distance radius + 0.05 from the
\* center after one SphereObstacle.handleCollision.
C6_PushedToSurface ==
    [][(pc = "handleCollisions" /\ Here /\ obstacles # <<>>
        /\ InBox(solver, particles[idx].position)
        /\ FLt(DistanceTo(particles[idx].position, obstacles[1].position),
               FAdd(obstacles[1].radius, F(5, -2)))) =>
           Near(DistanceTo(particles'[idx].position, obstacles[1].position),
                FAdd(obstacles[1].radius, F(5, -2)))]_vars

VNeg(a) == Vec(FNeg(a[1]), FNeg(a[2]), FNeg(a[3]))

\* The records of particle a's neighbor list that name particle b.
Listed(a, b) ==
    {n \in 1..Len(particles[a].neighbors) : particles[a].neighbors[n].particle = b}

\* A coordinate in whole centimetres, where it is one.
OnCm(x) == x.m = 0 \/ (x.e >= -2 /\ x.e <= 0)

Cm(x) == x.m * 10^(x.e + 2)

\* The squared distance of two positions on the centimetre grid, exactly.
SqCm(x, y) ==
    (Cm(x[1]) - Cm(y[1])) * (Cm(x[1]) - Cm(y[1]))
    + (Cm(x[2]) - Cm(y[2])) * (Cm(x[2]) - Cm(y[2]))
    + (Cm(x[3]) - Cm(y[3])) * (Cm(x[3]) - Cm(y[3]))

\* C7: after findNeighbors, for distinct particles A and B: B is in A's list
\* exactly when distance(A, B) < h (a pair at exactly h is not, and nobody
\* lists itself), B at most once, A is in B's list exactly when B is in A's,
\* with the same distance and opposite directions.
C7_NeighborsSymmetric ==
    pc \in {"computeDensityPressure", "computeForces"} =>
        \A a \in 1..N :
            /\ Listed(a, a) = {}
            /\ \A b \in 1..N \ {a} :
                   /\ Listed(a, b) # {} <=>
                          FLt(DistanceTo(particles[a].position,
                                         particles[b].position), solver.h)
                   /\ (\A c \in 1..3 : OnCm(particles[a].position[c])
                                       /\ OnCm(particles[b].position[c]))
                          => (Listed(a, b) # {} <=>
                                  /\ solver.h.m > 0
                                  /\ SqCm(particles[a].position,
                                          particles[b].position)
                                         < Cm(solver.h) * Cm(solver.h))
                   /\ Cardinality(Listed(a, b)) <= 1
                   /\ Listed(a, b) # {} <=> Listed(b, a) # {}
                   /\ \A n \in Listed(a, b), m \in Listed(b, a) :
                          /\ particles[a].neighbors[n].distance
                                 = particles[b].neighbors[m].distance
                          /\ particles[a].neighbors[n].direction
                                 = VNeg(particles[b].neighbors[m].direction)

\* C7 witness: findNeighbors has run on two particles that are closer than
\* h and list each other.
C7_Witness ==
    /\ pc = "computeDensityPressure"
    /\ N = 2
    /\ Listed(1, 2) # {}
    /\ particles[1].neighbors[1].direction # ZeroVec

\* C8 (as claimed): after computeDensityPressure every particle's density is
\* strictly greater than zero.
C8_DensityPositive ==
    \A i \in 1..N :
        (step >= 1 /\ written[i] = step) => FLt(Zero, particles[i].density)

\* C9: resetting with the same count and region gives the same number of
\* particles at the same positions, in the same order, as the first
\* initialization, all at rest, however many steps ran in between.
C9_ResetIdempotent ==
    lastCall.op = "resetSimulation" =>
        /\ Positions(particles) = initial
        /\ \A i \in 1..N : particles[i].velocity = ZeroVec

\* C9 witness: a second reset, after a step has moved the particles.
C9_Witness ==
    /\ lastCall.op = "resetSimulation"
    /\ epoch = 2
    /\ step >= 1
    /\ N >= 1

Min(a, b) == IF a < b THEN a ELSE b

Max(a, b) == IF a > b THEN a ELSE b

\* The grid position the claim gives the t-th created particle (t from 1),
\* x outer, y middle, z inner, for a grid of n[1] * n[2] * n[3] positions.
GridPoint(sys, region, n, t) ==
    LET i == (t - 1) \div (n[2] * n[3])
        j == ((t - 1) \div n[3]) % n[2]
        k == (t - 1) % n[3]
        spacing == FMul(F(5, -1), sys.h)
    IN  Vec(FAdd(region.min[1], FMul(FromInt(i), spacing)),
            FAdd(region.min[2], FMul(FromInt(j), spacing)),
            FAdd(region.min[3], FMul(FromInt(k), spacing)))

\* floor(extent / (0.5 * h)) on the three axes.
GridSize(sys, region) ==
    [a \in 1..3 |->
        FFloor(FDiv(FSub(region.max[a], region.min[a]), FMul(F(5, -1), sys.h)))]

FreshlyFilled == lastCall.op = "initializeParticles" /\ lastCall.before = 0

\* C10 (as claimed): initializeParticles(count, region) on an empty
\* collection creates exactly min(count, nx * ny * nz) particles, the first
\* ones of the grid, x outer, y middle, z inner.
C10_GridAsClaimed ==
    FreshlyFilled =>
        LET n == GridSize(solver, lastCall.region)
        IN  N = Min(lastCall.count, n[1] * n[2] * n[3])

\* C10 (amended): it creates min(count, nx * ny * nz) particles when nx, ny,
\* nz and count are all positive and none otherwise; the particles are the
\* first ones of the grid, x outer, y middle, z inner, at min + (i, j, k) *
\* 0.5 * h, each position once, at rest.
C10_GridClamped ==
    FreshlyFilled =>
        LET n == GridSize(solver, lastCall.region)
            total == IF n[1] > 0 /\ n[2] > 0 /\ n[3] > 0
                     THEN n[1] * n[2] * n[3] ELSE 0
        IN  /\ N = Max(0, Min(lastCall.count, total))
            /\ \A t \in 1..N :
                   /\ particles[t].position
                          = GridPoint(solver, lastCall.region, n, t)
                   /\ particles[t].velocity = ZeroVec
            /\ \A t, u \in 1..N : t # u =>
                   particles[t].position # particles[u].position

\* C10 witness: a grid of two positions asked for three particles.
C10_Witness ==
    /\ FreshlyFilled
    /\ lastCall.count = 3
    /\ N = 2
    /\ particles[2].position[1] # particles[1].position[1]

\* C11: resetSimulation replaces only the particle collection: the obstacle
\* list holds the same obstacles, in the same order and at the same
\* positions as before it, a dragged position included, and the solver's
\* configuration is the same.
C11_ResetKeepsObstacles ==
    [][epoch' # epoch =>
           /\ lastCall'.op = "resetSimulation"
           /\ obstacles' = obstacles
           /\ solver' = solver
           /\ params' = params]_vars

\* C11 witness: a reset has run, after a step, with the sphere where a drag
\* had left it.
C11_Witness ==
    /\ lastCall.op = "resetSimulation"
    /\ epoch >= 1
    /\ step >= 1
    /\ Len(obstacles) = 1
    /\ obstacles[1].position = Vec(Zero, F(-7, -1), Zero)
    /\ obstacles[1].radius = F(3, -1)

\* The value the claim gives an option: the supplied one when there is one,
\* the documented default when there is none.
SuppliedOrDefault(opt, default) == IF opt = NotSupplied THEN default ELSE opt[1]

\* C12 (as claimed): for restDensity, gasConstant, viscosity, timeStep,
\* surfaceTension and surfaceThreshold the constructed solver uses the
\* supplied value whenever one is supplied, 0 included, and the documented
\* default only when none is.
C12_SuppliedValueUsed ==
    status = "constructed" =>
        /\ solver.restDensity = SuppliedOrDefault(params.restDensity, F(1000, 0))
        /\ solver.gasConstant = SuppliedOrDefault(params.gasConstant, F(2000, 0))
        /\ solver.viscosity = SuppliedOrDefault(params.viscosity, F(18, -3))
        /\ solver.dt = SuppliedOrDefault(params.timeStep, F(4, -3))
        /\ solver.surfaceTension
               = SuppliedOrDefault(params.surfaceTension, F(728, -4))
        /\ solver.surfaceThreshold
               = SuppliedOrDefault(params.surfaceThreshold, F(7065, -3))

\* computeForces has just finished on exactly two particles closer than h.
PairForcesComputed ==
    /\ N = 2
    /\ pc = "integrate"
    /\ idx = 1
    /\ FLt(DistanceTo(particles[1].position, particles[2].position), solver.h)

\* C13: in a system of exactly two particles closer than h, after
\* findNeighbors and computeDensityPressure, the pressure force computeForces
\* accumulates on one is the exact negation of the one it accumulates on the
\* other, for every separation below h; where the gradient kernel's
\* near-zero-distance guard applies, both are zero.
C13_PressureForcesOpposite ==
    PairForcesComputed =>
        /\ \A i \in 1..2 : particles[i].force = ForceOn(solver, particles, i)
        /\ PressureForceOn(solver, particles, 1)
               = VNeg(PressureForceOn(solver, particles, 2))
        /\ FLt(DistanceTo(particles[1].position, particles[2].position),
               F(1, -4)) =>
               /\ PressureForceOn(solver, particles, 1) = ZeroVec
               /\ PressureForceOn(solver, particles, 2) = ZeroVec

\* C13 witness: computeForces has pushed two particles h/2 apart away from
\* each other.
C13_Witness ==
    /\ PairForcesComputed
    /\ FLt(PressureForceOn(solver, particles, 1)[1], Zero)
    /\ FLt(Zero, PressureForceOn(solver, particles, 2)[1])
    /\ solver.particleMass = F(1, 0)

\* The sphere's center is a point of [-0.7, 0.7]^3, where a drag can put it.
SphereWithinDragRange ==
    /\ Len(obstacles) = 1
    /\ obstacles[1].radius = F(3, -1)
    /\ \A a \in 1..3 : /\ FLe(F(-7, -1), obstacles[1].position[a])
                       /\ FLe(obstacles[1].position[a], F(7, -1))

\* C14 (as claimed): in the application, with the bounding box [-1, 1]^3 and
\* one sphere of radius 0.3 dragged between steps to any point of
\* [-0.7, 0.7]^3, after every completed step every particle lies in the
\* bounding box on all three axes.
C14_InBoxWithSphere ==
    (pc = "idle" /\ step >= 1 /\ SphereWithinDragRange) =>
        \A i \in 1..N : InBox(solver, particles[i].position)

=============================================================================
